---- MODULE Spec2Model ----
(***************************************************************************)
(* Model of the Domo MCP server: the authenticated request executor        *)
(* (DomoClient.make_request), the workflow trigger / poll / extract path   *)
(* (tix_domo, DomoClient.query_dataset), the retrying route handler        *)
(* (tix_workflow) and the single-request REST wrappers.                    *)
(*                                                                         *)
(* Python values are tagged records: the field t names the Python type.    *)
(* A Python string is the sequence of its pieces, so that ==, startswith,  *)
(* concatenation and emptiness are computed on its content: "result__x"    *)
(* is <<"result", "__", "x">>, "" is <<>>.                                 *)
(***************************************************************************)
EXTENDS Integers, Sequences, FiniteSets, TLC

(***************************************************************************)
(* Program constants and model bounds                                      *)
(***************************************************************************)
TixTimeoutSeconds == 300
QueryTimeoutSeconds == 120
Attempts == 5

\* longest transaction log the remote system answers with
MaxLog == 2

\* concurrent host: instances the remote system starts before it refuses
MaxInstances == 3

\* concurrent host: status queries an instance answers IN_PROGRESS before it
\* reports a terminal status
MaxPending == 1

(***************************************************************************)
(* Python values                                                           *)
(***************************************************************************)
PyNone == [t |-> "None"]
PyTrue == [t |-> "bool", v |-> TRUE]
PyStr(s) == [t |-> "str", v |-> s]
PyList(s) == [t |-> "list", v |-> s]
PyDict(f) == [t |-> "dict", v |-> f]

\* a string of one piece
S(x) == PyStr(<<x>>)
EmptyStr == PyStr(<<>>)
EmptyList == PyList(<<>>)
EmptyDict == PyDict(<<>>)

IN_PROGRESS == S("IN_PROGRESS")
COMPLETED == S("COMPLETED")

\* Python truthiness, as used by `if not data`
Truthy(x) ==
    CASE x.t = "None" -> FALSE
      [] x.t = "bool" -> x.v
      [] x.t = "str" -> Len(x.v) > 0
      [] x.t = "list" -> Len(x.v) > 0
      [] x.t = "dict" -> DOMAIN x.v # {}

\* outcome of a call: a returned value or a raised exception
Return(x) == [raised |-> FALSE, val |-> x]
Raise(e) == [raised |-> TRUE, exc |-> e]

\* an exception: its class and the pieces of str(e)
Exc(class, msg) == [class |-> class, msg |-> msg]
NoExc == [class |-> "none", msg |-> <<>>]

\* type(x).__name__
TypeName(x) == IF x.t = "None" THEN "NoneType" ELSE x.t

\* str.startswith
StartsWith(s, prefix) ==
    /\ Len(s) >= Len(prefix)
    /\ SubSeq(s, 1, Len(prefix)) = prefix

\* dict.get(key, default); any other receiver has no attribute get
Get(x, key, default) ==
    IF x.t # "dict"
    THEN Raise(Exc("AttributeError", <<"'", TypeName(x), "' object has no attribute 'get'">>))
    ELSE IF key \in DOMAIN x.v THEN Return(x.v[key])
    ELSE Return(default)

\* x[key]: fails on None (TypeError) and on a dict without the key (KeyError)
Subscript(x, key) ==
    IF x.t # "dict"
    THEN Raise(Exc("TypeError", <<"'", TypeName(x), "' object is not subscriptable">>))
    ELSE IF key \notin DOMAIN x.v THEN Raise(Exc("KeyError", <<"'", key, "'">>))
    ELSE Return(x.v[key])

\* iter(x), as the comprehensions and the generator expression apply it
Iter(x) ==
    IF x.t = "list" THEN Return(x.v)
    ELSE Raise(Exc("TypeError", <<"'", TypeName(x), "' object is not iterable">>))

\* json.loads on the texts the model uses
JsonLoads(x) ==
    IF x.t # "str"
    THEN Raise(Exc("TypeError", <<"the JSON object must be str, bytes or bytearray, not ", TypeName(x)>>))
    ELSE IF x.v = <<"{", "}">> THEN Return(EmptyDict)
    ELSE IF x.v = <<"[", "]">> THEN Return(EmptyList)
    ELSE IF x.v = <<"{", "\"rows\": 3", "}">> THEN Return(PyDict([rows |-> 3]))
    ELSE Raise(Exc("JSONDecodeError", <<"Expecting value: line 1 column 1 (char 0)">>))

(***************************************************************************)
(* The remote system: what one HTTP exchange can produce                   *)
(***************************************************************************)
\* no connection: requests.get/post raises before a response object exists
ConnError == [k |-> "conn_error"]
\* a response with a non-2xx status
HttpError == [k |-> "http_error"]
\* a 2xx response whose body is not JSON
OkNotJson == [k |-> "ok_notjson"]
\* a 2xx response with a JSON body, given decoded
OkJson(x) == [k |-> "ok", body |-> x]
\* a 2xx response read as raw text
OkText(s) == [k |-> "ok_text", text |-> s]

InstanceIds == {<<"abc123">>, <<"def456">>, <<>>}
StatusTexts == {<<"IN_PROGRESS">>, <<"COMPLETED">>, <<"FAILED">>}

\* bodies of the activate endpoint: {id, status}, with either field absent
ActivateBodies ==
    {PyDict([id |-> PyStr(i), status |-> PyStr(s)]) : i \in InstanceIds, s \in StatusTexts}
    \cup {PyDict([status |-> IN_PROGRESS]), PyDict([id |-> S("abc123")])}

ActivateAnswers == {ConnError, HttpError, OkNotJson} \cup {OkJson(b) : b \in ActivateBodies}

StatusAnswers == {ConnError, HttpError} \cup {OkText(s) : s \in StatusTexts}

ResultX == <<"result", "__", "x">>
ResultY == <<"result", "__", "y">>
Result == <<"result">>
Other == <<"other">>
ResultPrefix == <<"result", "__">>

Msg(i, v) == PyDict([id |-> PyStr(i), value |-> PyStr(v)])

\* messages of the transaction log of a tix workflow
TixItems ==
    {Msg(ResultX, <<"1">>), Msg(Other, <<"2">>), Msg(ResultY, <<"3">>), Msg(Result, <<"4">>)}
\* messages of the transaction log of the query workflow
QueryItems ==
    {Msg(Result, <<"{", "\"rows\": 3", "}">>), Msg(Result, <<"{", "}">>), Msg(Result, <<>>),
     Msg(Result, <<"bad">>), Msg(Other, <<"{", "}">>), PyDict([id |-> PyStr(Result)])}

SeqsUpTo(items, n) == UNION {[1..k -> items] : k \in 0..n}

TixTxnAnswers == {ConnError, HttpError} \cup {OkJson(PyList(l)) : l \in SeqsUpTo(TixItems, MaxLog)}
QueryTxnAnswers == {ConnError, HttpError} \cup {OkJson(PyList(l)) : l \in SeqsUpTo(QueryItems, MaxLog)}

\* payloads of the single-request endpoints
Role == PyDict([id |-> S("1"), name |-> S("Admin")])
DataSource == PyDict([id |-> S("ds1"), name |-> S("sales"), owner |-> S("bob")])
RestBodies ==
    {EmptyList, PyList(<<Role>>), EmptyDict, PyDict([name |-> S("sales")]),
     PyDict([dataSources |-> EmptyList]), PyDict([dataSources |-> PyList(<<DataSource>>)]),
     PyDict([dataSources |-> PyList(<<PyDict([id |-> S("ds1")])>>)])}
RestAnswers == {ConnError, HttpError, OkNotJson} \cup {OkJson(b) : b \in RestBodies}

(***************************************************************************)
(* DomoClient.make_request                                                 *)
(***************************************************************************)
\* server.py: the RequestException handler formats response.text; when the
\* request itself failed, `response` was never bound and the handler raises
\* UnboundLocalError, which leaves make_request.
make_request(method, tr, nojson) ==
    IF method \notin {"GET", "POST", "DELETE"} THEN Return(PyNone)
    ELSE IF tr.k = "conn_error"
    THEN Raise(Exc("UnboundLocalError",
                   <<"cannot access local variable 'response' where it is not associated with a value">>))
    ELSE IF tr.k = "http_error" THEN Return(PyNone)
    ELSE IF nojson THEN Return(PyStr(IF tr.k = "ok_text" THEN tr.text ELSE <<>>))
    ELSE IF tr.k = "ok" THEN Return(tr.body)
    ELSE Return(PyNone)

\* domo.py: the same executor without nojson; its handlers only log e
domo_make_request(method, tr) ==
    IF method \notin {"GET", "POST", "DELETE"} THEN Return(PyNone)
    ELSE IF tr.k = "conn_error" THEN Return(PyNone)
    ELSE IF tr.k = "http_error" THEN Return(PyNone)
    ELSE IF tr.k = "ok" THEN Return(tr.body)
    ELSE Return(PyNone)

(***************************************************************************)
(* Loop conditions and URL construction                                    *)
(***************************************************************************)
\* the loop test stopping one tick early: timeout_seconds>1
PollContinues_EarlyStop(st, timeout) == st = IN_PROGRESS /\ timeout > 1

\* the loop test allowing one tick more: timeout_seconds>=0
PollContinues_OneMore(st, timeout) == st = IN_PROGRESS /\ timeout >= 0

\* the loop test polling on after a failed query
PollContinues_ThroughFailure(st, timeout) == (st = IN_PROGRESS \/ st = PyNone) /\ timeout > 0

\* the loop test without its budget: while status=='IN_PROGRESS'
PollContinues_NoBudget(st, timeout) == st = IN_PROGRESS

\* while status=='IN_PROGRESS' and timeout_seconds>0
PollContinues(st, timeout) == st = IN_PROGRESS /\ timeout > 0

\* the attempt left uncounted
Spend_Nothing(att) == att

\* attempts -= 1
Spend(att) == att - 1

\* one more activation counted; the count stops above the number of attempts
CountActivation(n) == IF n > Attempts THEN n ELSE n + 1

\* the loop test giving up after an instance that ended FAILED
RetryContinues_StopOnFailure(st, att) == st \notin {COMPLETED, S("FAILED")} /\ att > 0

\* the loop test off by one: while status !='COMPLETED' and attempts>= 0
RetryContinues_OffByOne(st, att) == st # COMPLETED /\ att >= 0

\* while status !='COMPLETED' and attempts> 0
RetryContinues(st, att) == st # COMPLETED /\ att > 0

\* the requests of the workflow path, by method and endpoint:
\* POST /workflow/v2/triggers/{TriggerId}/activate
ActivateRequest == [method |-> "POST", endpoint |-> "activate"]
\* GET /workflow/v1/instances/{instance_id}/status
StatusRequest == [method |-> "GET", endpoint |-> "status"]
\* a request that deletes the instance in place of the transactions fetch
TransactionsRequest_Cancel == [method |-> "DELETE", endpoint |-> "instance"]
\* GET /workflow/v1/instances/transactions?instanceId={instance_id}
TransactionsRequest == [method |-> "GET", endpoint |-> "transactions"]

\* the instance id the status and transactions URLs are built from
StatusUrlId(inst) == inst
\* the transactions URL built with the id of the first instance the remote
\* system started
TransactionsUrlId_First(inst) == PyStr(<<"wf", "1">>)
TransactionsUrlId(inst) == inst

(***************************************************************************)
(* State                                                                   *)
(***************************************************************************)
VARIABLES
    op,              \* the entry point being executed
    pc,              \* position in it
    attempts,        \* tix_workflow: attempts
    wstatus,         \* tix_workflow: status
    response,        \* tix_workflow: response
    instance_id,     \* tix_domo / query_dataset: instance_id
    status,          \* tix_domo / query_dataset: status
    timeout_seconds, \* tix_domo / query_dataset: timeout_seconds
    result,          \* the value returned to the caller
    exc,             \* the exception that left the entry point, if any
    answer,          \* the remote system's answer to the latest request
    nActivations,    \* activate requests issued by this invocation
    actOutcome,      \* latest activation: "none", "failed" or "ok"
    actId,           \* the id the latest activation returned
    nStatusQ,        \* status queries answered in the poll loop in progress
    nTxn,            \* transactions fetches issued since the latest activation
    reqId,           \* the id carried by the latest status/transactions request
    observed,        \* the status the remote system last reported for the latest activation
    terminalSeen,    \* the poll loop in progress has observed a status other than IN_PROGRESS
    request,         \* method and endpoint of the latest request
    host,            \* concurrent host: how it runs its invocations
    loop,            \* concurrent host: the invocation holding the event-loop thread, 0 when free
    task,            \* concurrent host: each invocation's position, handler state and outcome
    frame,           \* concurrent host: the locals of each tix_domo call in progress
    instances        \* concurrent host: the instances the remote system has started

\* the state of the concurrent host
concurrent == <<host, loop, task, frame, instances>>

vars == <<op, pc, attempts, wstatus, response, instance_id, status,
          timeout_seconds, result, exc, answer, nActivations, actOutcome,
          actId, nStatusQ, nTxn, reqId, observed, terminalSeen, request, concurrent>>

NoValue == [t |-> "unset"]
NoReq == [t |-> "noreq"]

\* concurrent host: the invocations in flight
Tasks == {1, 2}

\* an invocation not yet started: the locals of tix_workflow (attempts, status
\* as wstatus, response), what it hands to its caller, and the ids of its
\* latest activation and latest request
IdleTask ==
    [pc |-> "idle", attempts |-> 0, wstatus |-> NoValue, response |-> NoValue,
     result |-> NoValue, exc |-> NoExc, actId |-> NoValue, reqId |-> NoReq]

\* no tix_domo call in progress
NoFrame == [instance_id |-> NoValue, status |-> NoValue, timeout_seconds |-> 0]

locals == <<instance_id, status, timeout_seconds>>
history == <<nActivations, actOutcome, actId, nStatusQ, nTxn, reqId, observed, terminalSeen,
             request>>
caller == <<result, exc>>
workflow == <<attempts, wstatus, response>>

Init ==
    /\ op = "idle"
    /\ pc = "idle"
    /\ attempts = 0
    /\ wstatus = NoValue
    /\ response = NoValue
    /\ instance_id = NoValue
    /\ status = NoValue
    /\ timeout_seconds = 0
    /\ result = NoValue
    /\ exc = NoExc
    /\ answer = NoValue
    /\ nActivations = 0
    /\ actOutcome = "none"
    /\ actId = NoValue
    /\ nStatusQ = 0
    /\ nTxn = 0
    /\ reqId = NoReq
    /\ observed = NoValue
    /\ terminalSeen = FALSE
    /\ request = NoReq
    /\ host = "unset"
    /\ loop = 0
    /\ task = [p \in Tasks |-> IdleTask]
    /\ frame = [p \in Tasks |-> NoFrame]
    /\ instances = <<>>

\* The request payload (data, venue_id, prompt) only travels to the remote
\* system as the body of the activate request and decides nothing here; it
\* is not part of the state.

\* the locals of tix_domo / query_dataset end with the call
EndFrame ==
    /\ instance_id' = NoValue
    /\ status' = NoValue
    /\ timeout_seconds' = 0

\* the poll loop has ended
EndPoll ==
    /\ nStatusQ' = 0
    /\ terminalSeen' = FALSE

\* the entry point ends: a value goes to the caller, or an exception leaves it
Finish(r) ==
    IF r.raised
    THEN /\ pc' = "crashed"
         /\ exc' = r.exc
         /\ UNCHANGED result
    ELSE /\ pc' = "done"
         /\ result' = r.val
         /\ UNCHANGED exc

\* lines 360-363 of tix_domo, 112-115 of query_dataset: the activate request
\* and the two subscripts; raised when any of the three raises
Activation(tr) ==
    LET r == make_request(ActivateRequest.method, tr, FALSE)
        i == IF r.raised THEN r ELSE Subscript(r.val, "id")
        s == IF i.raised THEN i ELSE Subscript(r.val, "status")
    IN  IF s.raised THEN s ELSE Return([id |-> i.val, status |-> s.val])

\* what an activation does to the history of requests
Activated(tr, a) ==
    /\ answer' = tr
    /\ request' = ActivateRequest
    /\ nActivations' = CountActivation(nActivations)
    /\ nStatusQ' = 0
    /\ nTxn' = 0
    /\ reqId' = NoReq
    /\ actOutcome' = IF a.raised THEN "failed" ELSE "ok"
    /\ actId' = IF a.raised THEN NoValue ELSE a.val.id
    /\ observed' = IF a.raised THEN NoValue ELSE a.val.status
    /\ terminalSeen' = IF a.raised THEN FALSE ELSE a.val.status # IN_PROGRESS

(***************************************************************************)
(* tix_workflow (proxy.py) and tix_domo (server.py)                        *)
(***************************************************************************)
\* proxy.py 12-14
TixWorkflowStart ==
    /\ pc = "idle"
    /\ op' = "tix_workflow"
    /\ attempts' = Attempts
    /\ wstatus' = S("uninitialized")
    /\ pc' = "tw_loop"
    /\ UNCHANGED <<response, locals, caller, answer, history, concurrent>>

\* proxy.py 16-18: the loop test holds and tix_domo is called.  response is
\* assigned when the call returns and is not read before: the value left by
\* the attempt before is forgotten here.
TwCallTixDomo ==
    /\ pc = "tw_loop"
    /\ RetryContinues(wstatus, attempts)
    /\ pc' = "td_activate"
    /\ response' = NoValue
    /\ UNCHANGED <<op, attempts, wstatus, locals, caller, answer, history, concurrent>>

\* server.py 382-384: what tix_domo returns when its try block raised e
TixDomoHandler(e) == PyTrue

\* server.py 358-367, with the handler of 382-384 on failure
TdActivate ==
    /\ pc = "td_activate"
    /\ \E tr \in ActivateAnswers :
        LET a == Activation(tr) IN
        /\ Activated(tr, a)
        /\ IF a.raised
           THEN /\ response' = TixDomoHandler(a.exc)
                /\ pc' = "tw_recv"
                /\ EndFrame
           ELSE /\ instance_id' = a.val.id
                /\ status' = a.val.status
                /\ timeout_seconds' = TixTimeoutSeconds
                /\ pc' = "td_poll"
                /\ UNCHANGED response
    /\ UNCHANGED <<op, attempts, wstatus, caller, concurrent>>

\* server.py 369-373: one iteration of the poll loop
TdPoll ==
    /\ pc = "td_poll"
    /\ PollContinues(status, timeout_seconds)
    /\ \E tr \in StatusAnswers :
        LET r == make_request(StatusRequest.method, tr, TRUE) IN
        /\ answer' = tr
        /\ request' = StatusRequest
        /\ reqId' = StatusUrlId(instance_id)
        /\ IF r.raised
           THEN /\ response' = TixDomoHandler(r.exc)
                /\ pc' = "tw_recv"
                /\ EndFrame
                /\ EndPoll
                /\ UNCHANGED observed
           ELSE /\ status' = r.val
                /\ observed' = r.val
                /\ timeout_seconds' = timeout_seconds - 1
                /\ nStatusQ' = nStatusQ + 1
                /\ terminalSeen' = (terminalSeen \/ r.val # IN_PROGRESS)
                /\ UNCHANGED <<response, pc, instance_id>>
    /\ UNCHANGED <<op, attempts, wstatus, caller, nActivations, actOutcome, actId, nTxn,
                   concurrent>>

\* the fetch made only for an instance that ended COMPLETED
TdFetch_OnlyCompleted ==
    /\ pc = "td_poll"
    /\ ~PollContinues(status, timeout_seconds)
    /\ status = COMPLETED
    /\ \E tr \in TixTxnAnswers :
        LET r == make_request(TransactionsRequest.method, tr, FALSE) IN
        /\ answer' = tr
        /\ request' = TransactionsRequest
        /\ nTxn' = nTxn + 1
        /\ reqId' = TransactionsUrlId(instance_id)
        /\ response' = IF r.raised THEN TixDomoHandler(r.exc)
                       ELSE PyDict([status |-> status, messages |-> r.val])
    /\ pc' = "tw_recv"
    /\ EndFrame
    /\ EndPoll
    /\ UNCHANGED <<op, attempts, wstatus, caller, nActivations, actOutcome, actId, observed,
                   concurrent>>

\* server.py 375-380: the loop has ended; fetch the transactions and return
TdFetch ==
    /\ pc = "td_poll"
    /\ ~PollContinues(status, timeout_seconds)
    /\ \E tr \in TixTxnAnswers :
        LET r == make_request(TransactionsRequest.method, tr, FALSE) IN
        /\ answer' = tr
        /\ request' = TransactionsRequest
        /\ nTxn' = nTxn + 1
        /\ reqId' = TransactionsUrlId(instance_id)
        /\ response' = IF r.raised THEN TixDomoHandler(r.exc)
                       ELSE PyDict([status |-> status, messages |-> r.val])
    /\ pc' = "tw_recv"
    /\ EndFrame
    /\ EndPoll
    /\ UNCHANGED <<op, attempts, wstatus, caller, nActivations, actOutcome, actId, observed,
                   concurrent>>

\* proxy.py 20-21
TwReceive ==
    /\ pc = "tw_recv"
    /\ LET g == Get(response, "status", S("uninitialized")) IN
       IF g.raised
       THEN /\ pc' = "crashed"
            /\ exc' = g.exc
            /\ UNCHANGED <<wstatus, attempts>>
       ELSE /\ wstatus' = g.val
            /\ attempts' = Spend(attempts)
            /\ pc' = "tw_loop"
            /\ UNCHANGED exc
    /\ UNCHANGED <<op, response, locals, result, answer, history, concurrent>>

\* the comprehension without its condition
Filtered_All(msgs) == msgs

\* the comprehension running over the list from its end
Filtered_Reversed(msgs) ==
    LET f == SelectSeq(msgs, LAMBDA item : StartsWith(Get(item, "id", EmptyStr).val.v, ResultPrefix))
    IN  [k \in 1..Len(f) |-> f[Len(f) + 1 - k]]

\* [item for item in response['messages'] if item.get("id", "").startswith("result__")]
Filtered(msgs) ==
    SelectSeq(msgs, LAMBDA item : StartsWith(Get(item, "id", EmptyStr).val.v, ResultPrefix))

JSONResponse(body) == [t |-> "JSONResponse", body |-> body]

\* proxy.py 23-30: what tix_workflow returns once the loop has ended
TixWorkflowReturn(st, resp) ==
    IF st = COMPLETED
    THEN LET m == Subscript(resp, "messages") IN
         IF m.raised THEN m
         ELSE LET l == Iter(m.val) IN
              IF l.raised THEN l
              ELSE Return(JSONResponse(PyDict([status |-> S("completed"),
                                               data |-> PyList(Filtered(l.val))])))
    ELSE LET g == Get(resp, "status", S("unknown")) IN
         IF g.raised THEN g
         ELSE Return(JSONResponse(PyDict([status |-> g.val, data |-> resp])))

TwReturn ==
    /\ pc = "tw_loop"
    /\ ~RetryContinues(wstatus, attempts)
    /\ Finish(TixWorkflowReturn(wstatus, response))
    /\ UNCHANGED <<op, workflow, locals, answer, history, concurrent>>

(***************************************************************************)
(* DomoClient.query_dataset (server.py)                                    *)
(***************************************************************************)
\* query_dataset without its except clause
QueryDatasetHandler_Propagates(e) == Raise(e)

\* server.py 151-153: what query_dataset returns when its try block raised e
QueryDatasetHandler(e) == Return(PyStr(<<"Error executing query on dataset: ">> \o e.msg))

\* the selection taking the last match in place of the first
ExactMatchOne_Last(msgs) ==
    LET hits == SelectSeq(msgs, LAMBDA item : Get(item, "id", PyNone).val = PyStr(Result))
    IN  IF Len(hits) = 0 THEN PyNone ELSE hits[Len(hits)]

\* next((item for item in messages if item.get("id") == "result"), None)
ExactMatchOne(msgs) ==
    LET hits == SelectSeq(msgs, LAMBDA item : Get(item, "id", PyNone).val = PyStr(Result))
    IN  IF Len(hits) = 0 THEN PyNone ELSE Head(hits)

\* server.py 134-149: select the result message and decode its value
QueryExtract(messages) ==
    LET l == Iter(messages) IN
    IF l.raised THEN l
    ELSE LET d == Subscript(ExactMatchOne(l.val), "value") IN
         IF d.raised THEN d
         ELSE IF ~Truthy(d.val) THEN Return(S("Unable to execute query on the dataset."))
         ELSE JsonLoads(d.val)

QueryDatasetStart ==
    /\ pc = "idle"
    /\ op' = "query_dataset"
    /\ pc' = "qd_activate"
    /\ UNCHANGED <<workflow, locals, caller, answer, history, concurrent>>

\* server.py 110-119
QdActivate ==
    /\ pc = "qd_activate"
    /\ \E tr \in ActivateAnswers :
        LET a == Activation(tr) IN
        /\ Activated(tr, a)
        /\ IF a.raised
           THEN /\ Finish(QueryDatasetHandler(a.exc))
                /\ EndFrame
           ELSE /\ instance_id' = a.val.id
                /\ status' = a.val.status
                /\ timeout_seconds' = QueryTimeoutSeconds
                /\ pc' = "qd_poll"
                /\ UNCHANGED caller
    /\ UNCHANGED <<op, workflow, concurrent>>

\* server.py 121-125: one iteration of the poll loop
QdPoll ==
    /\ pc = "qd_poll"
    /\ PollContinues(status, timeout_seconds)
    /\ \E tr \in StatusAnswers :
        LET r == make_request(StatusRequest.method, tr, TRUE) IN
        /\ answer' = tr
        /\ request' = StatusRequest
        /\ reqId' = StatusUrlId(instance_id)
        /\ IF r.raised
           THEN /\ Finish(QueryDatasetHandler(r.exc))
                /\ EndFrame
                /\ EndPoll
                /\ UNCHANGED observed
           ELSE /\ status' = r.val
                /\ observed' = r.val
                /\ timeout_seconds' = timeout_seconds - 1
                /\ nStatusQ' = nStatusQ + 1
                /\ terminalSeen' = (terminalSeen \/ r.val # IN_PROGRESS)
                /\ UNCHANGED <<pc, instance_id, caller>>
    /\ UNCHANGED <<op, workflow, nActivations, actOutcome, actId, nTxn, concurrent>>

\* the tail that extracts only for an instance that ended COMPLETED
QueryDatasetTail_StatusChecked(tr) ==
    LET r == make_request(TransactionsRequest.method, tr, FALSE)
        x == IF r.raised THEN r ELSE QueryExtract(r.val)
    IN  IF status # COMPLETED THEN Return(S("Unable to execute query on the dataset."))
        ELSE IF x.raised THEN QueryDatasetHandler(x.exc) ELSE x

\* server.py 129-153: the transactions request answered tr; what query_dataset returns
QueryDatasetTail(tr) ==
    LET r == make_request(TransactionsRequest.method, tr, FALSE)
        x == IF r.raised THEN r ELSE QueryExtract(r.val)
    IN  IF x.raised THEN QueryDatasetHandler(x.exc) ELSE x

\* server.py 127-153: the loop has ended; fetch, extract and return
QdFetch ==
    /\ pc = "qd_poll"
    /\ ~PollContinues(status, timeout_seconds)
    /\ \E tr \in QueryTxnAnswers :
        /\ answer' = tr
        /\ request' = TransactionsRequest
        /\ nTxn' = nTxn + 1
        /\ reqId' = TransactionsUrlId(instance_id)
        /\ Finish(QueryDatasetTail(tr))
    /\ EndFrame
    /\ EndPoll
    /\ UNCHANGED <<op, workflow, nActivations, actOutcome, actId, observed, concurrent>>

\* server.py 337-348: what the tool SearchDomo hands to its caller
SearchDomo(query_results) == PyDict([data |-> query_results])

(***************************************************************************)
(* The single-request wrappers                                             *)
(***************************************************************************)
\* the shape shared by list_roles and get_dataset_metadata:
\* `if not data: return unable` and `except Exception as e: return error + str(e)`
Wrapper(r, unable, error) ==
    IF r.raised THEN PyStr(<<error>> \o r.exc.msg)
    ELSE IF ~Truthy(r.val) THEN S(unable)
    ELSE r.val

\* server.py 192-205
list_roles(tr) ==
    Wrapper(make_request("GET", tr, FALSE),
            "Unable to fetch role list.", "Error fetching role list: ")

\* server.py 77-90
get_dataset_metadata(tr) ==
    Wrapper(make_request("GET", tr, FALSE),
            "Unable to fetch dataset metadata.", "Error fetching dataset metadata: ")

\* domo.py 71-84
domo_get_dataset_metadata(tr) ==
    Wrapper(domo_make_request("GET", tr),
            "Unable to fetch dataset metadata.", "Error fetching dataset metadata: ")

\* {"id": ds["id"], "name": ds["name"]} for each ds
Projected(sources) ==
    IF \E k \in 1..Len(sources) : Subscript(sources[k], "id").raised
    THEN Raise(Exc("KeyError", <<"'", "id", "'">>))
    ELSE IF \E k \in 1..Len(sources) : Subscript(sources[k], "name").raised
    THEN Raise(Exc("KeyError", <<"'", "name", "'">>))
    ELSE Return(PyList([k \in 1..Len(sources) |->
                          PyDict([id |-> sources[k].v.id, name |-> sources[k].v.name])]))

\* server.py 155-190
search_datasets(tr) ==
    LET r == make_request("POST", tr, FALSE)
        error == "Error searching datasets: "
    IN  IF r.raised THEN PyStr(<<error>> \o r.exc.msg)
        ELSE IF ~Truthy(r.val) THEN S("Unable to search datasets.")
        ELSE LET g == Get(r.val, "dataSources", EmptyList) IN
             IF g.raised THEN PyStr(<<error>> \o g.exc.msg)
             ELSE LET p == Projected(g.val.v) IN
                  IF p.raised THEN PyStr(<<error>> \o p.exc.msg) ELSE p.val

\* one call of a wrapper: the remote answered tr and value goes to the caller
Single(name, tr, value) ==
    /\ answer' = tr
    /\ result' = value
    /\ op' = name
    /\ pc' = "done"
    /\ request' = [method |-> IF name = "search_datasets" THEN "POST" ELSE "GET",
                   endpoint |-> name]
    /\ UNCHANGED <<workflow, locals, exc, nActivations, actOutcome, actId, nStatusQ, nTxn,
                   reqId, observed, terminalSeen, concurrent>>

ListRoles ==
    /\ pc = "idle"
    /\ \E tr \in RestAnswers : Single("list_roles", tr, list_roles(tr))

GetDatasetMetadata ==
    /\ pc = "idle"
    /\ \E tr \in RestAnswers : Single("get_dataset_metadata", tr, get_dataset_metadata(tr))

DomoGetDatasetMetadata ==
    /\ pc = "idle"
    /\ \E tr \in RestAnswers :
        Single("domo.get_dataset_metadata", tr, domo_get_dataset_metadata(tr))

SearchDatasets ==
    /\ pc = "idle"
    /\ \E tr \in RestAnswers : Single("search_datasets", tr, search_datasets(tr))

(***************************************************************************)
(* Concurrent invocations of tix_workflow in one host                      *)
(*                                                                         *)
(* The host either runs every invocation as a coroutine of one event loop  *)
(* (proxy.run with the streamable-http transport), where an invocation     *)
(* keeps the thread until it suspends in an await or ends, or gives each   *)
(* invocation a worker of its own, which allows every interleaving.  The   *)
(* requests library and time.sleep block the thread: neither suspends.     *)
(***************************************************************************)
sequential == <<op, pc, workflow, locals, caller, answer, history>>

\* every tix_domo call keeps instance_id, status and timeout_seconds in one
\* place shared by all calls
Frame_Shared(p) == 1

\* the place where the tix_domo call of invocation p keeps instance_id, status
\* and timeout_seconds: they are locals, each call has its own
Frame(p) == p

\* the id the remote system gives its k-th instance
InstanceId(k) == <<"wf", ToString(k)>>

\* the instance the id i names, 0 when it names none
InstanceOf(i) ==
    IF \E k \in 1..Len(instances) : i = PyStr(InstanceId(k))
    THEN CHOOSE k \in 1..Len(instances) : i = PyStr(InstanceId(k))
    ELSE 0

\* the transaction log of the k-th instance: its messages carry its id
InstanceLog(k) == <<Msg(ResultX, InstanceId(k)), Msg(Other, InstanceId(k))>>

\* what the remote system can answer to an activate request
ActivateAnswersNow ==
    {ConnError, HttpError} \cup
    (IF Len(instances) < MaxInstances
     THEN {OkJson(PyDict([id |-> PyStr(InstanceId(Len(instances) + 1)), status |-> PyStr(s)])) :
              s \in StatusTexts}
     ELSE {})

\* what it can answer to a status request naming the id i
StatusAnswersNow(i) ==
    LET k == InstanceOf(i) IN
    IF k = 0 THEN {HttpError}
    ELSE {ConnError, HttpError} \cup
         {OkText(s) : s \in (IF instances[k].polls < MaxPending THEN StatusTexts
                             ELSE StatusTexts \ {<<"IN_PROGRESS">>})}

\* what it can answer to a transactions request naming the id i
TransactionsAnswersNow(i) ==
    LET k == InstanceOf(i) IN
    IF k = 0 THEN {HttpError} ELSE {HttpError, OkJson(PyList(InstanceLog(k)))}

\* the remote system after answering tr to invocation p's activate request
Started(p, tr) ==
    IF tr.k = "ok"
    THEN Append(instances, [owner |-> p, polls |-> 0, reported |-> tr.body.v.status])
    ELSE instances

\* the remote system after the status request naming i came back to the code as r
Reported(i, r) ==
    LET k == InstanceOf(i) IN
    IF k = 0 \/ r.raised THEN instances
    ELSE [instances EXCEPT ![k] = [@ EXCEPT !.reported = r.val,
                                            !.polls = IF r.val = IN_PROGRESS THEN @ + 1 ELSE @]]

\* invocation p may take a step: it has a worker of its own, or the event
\* loop's thread is free or already its own
Runs(p) ==
    \/ host = "workers"
    \/ host = "event_loop" /\ loop \in {0, p}

\* the holder of the event loop's thread after a step of p that has not suspended
Held(p) == IF host = "event_loop" THEN p ELSE 0

\* how invocations are run is settled when the host starts
CHost ==
    /\ host = "unset"
    /\ host' \in {"event_loop", "workers"}
    /\ UNCHANGED <<sequential, loop, task, frame, instances>>

\* proxy.py 12-14: `await request.json()` suspends the coroutine
CTixWorkflowStart(p) ==
    /\ task[p].pc = "idle"
    /\ Runs(p)
    /\ task' = [task EXCEPT ![p] = [@ EXCEPT !.pc = "tw_loop",
                                             !.attempts = Attempts,
                                             !.wstatus = S("uninitialized")]]
    /\ loop' = 0
    /\ UNCHANGED <<sequential, host, frame, instances>>

\* proxy.py 16-18
CTwCallTixDomo(p) ==
    /\ task[p].pc = "tw_loop"
    /\ Runs(p)
    /\ RetryContinues(task[p].wstatus, task[p].attempts)
    /\ task' = [task EXCEPT ![p] = [@ EXCEPT !.pc = "td_activate", !.response = NoValue]]
    /\ loop' = Held(p)
    /\ UNCHANGED <<sequential, host, frame, instances>>

\* server.py 358-367, with the handler of 382-384 on failure
CTdActivate(p) ==
    /\ task[p].pc = "td_activate"
    /\ Runs(p)
    /\ \E tr \in ActivateAnswersNow :
        LET a == Activation(tr) IN
        /\ instances' = Started(p, tr)
        /\ IF a.raised
           THEN /\ task' = [task EXCEPT ![p] = [@ EXCEPT !.pc = "tw_recv",
                                                         !.response = TixDomoHandler(a.exc),
                                                         !.actId = NoValue,
                                                         !.reqId = NoReq]]
                /\ frame' = [frame EXCEPT ![Frame(p)] = NoFrame]
           ELSE /\ task' = [task EXCEPT ![p] = [@ EXCEPT !.pc = "td_poll",
                                                         !.actId = a.val.id,
                                                         !.reqId = NoReq]]
                /\ frame' = [frame EXCEPT ![Frame(p)] =
                                [instance_id |-> a.val.id, status |-> a.val.status,
                                 timeout_seconds |-> TixTimeoutSeconds]]
    /\ loop' = Held(p)
    /\ UNCHANGED <<sequential, host>>

\* server.py 369-372: the status request and the decrement; sleep(1) follows
CTdPoll(p) ==
    /\ task[p].pc = "td_poll"
    /\ Runs(p)
    /\ PollContinues(frame[Frame(p)].status, frame[Frame(p)].timeout_seconds)
    /\ \E tr \in StatusAnswersNow(frame[Frame(p)].instance_id) :
        LET r == make_request(StatusRequest.method, tr, TRUE) IN
        /\ instances' = Reported(frame[Frame(p)].instance_id, r)
        /\ IF r.raised
           THEN /\ task' = [task EXCEPT ![p] = [@ EXCEPT !.pc = "tw_recv",
                                                         !.response = TixDomoHandler(r.exc),
                                                         !.reqId = StatusUrlId(frame[Frame(p)].instance_id)]]
                /\ frame' = [frame EXCEPT ![Frame(p)] = NoFrame]
           ELSE /\ task' = [task EXCEPT ![p] = [@ EXCEPT !.pc = "td_sleep",
                                                         !.reqId = StatusUrlId(frame[Frame(p)].instance_id)]]
                /\ frame' = [frame EXCEPT ![Frame(p)] =
                                [@ EXCEPT !.status = r.val,
                                          !.timeout_seconds = @ - 1]]
    /\ loop' = Held(p)
    /\ UNCHANGED <<sequential, host>>

\* server.py 373: sleep(1) is time.sleep; it returns after a second, the
\* thread having been kept all along
CTdWake(p) ==
    /\ task[p].pc = "td_sleep"
    /\ Runs(p)
    /\ task' = [task EXCEPT ![p] = [@ EXCEPT !.pc = "td_poll"]]
    /\ loop' = Held(p)
    /\ UNCHANGED <<sequential, host, frame, instances>>

\* server.py 375-380
CTdFetch(p) ==
    /\ task[p].pc = "td_poll"
    /\ Runs(p)
    /\ ~PollContinues(frame[Frame(p)].status, frame[Frame(p)].timeout_seconds)
    /\ \E tr \in TransactionsAnswersNow(frame[Frame(p)].instance_id) :
        LET r == make_request(TransactionsRequest.method, tr, FALSE) IN
        task' = [task EXCEPT ![p] =
                    [@ EXCEPT !.pc = "tw_recv",
                              !.reqId = TransactionsUrlId(frame[Frame(p)].instance_id),
                              !.response = IF r.raised THEN TixDomoHandler(r.exc)
                                           ELSE PyDict([status |-> frame[Frame(p)].status,
                                                        messages |-> r.val])]]
    /\ frame' = [frame EXCEPT ![Frame(p)] = NoFrame]
    /\ loop' = Held(p)
    /\ UNCHANGED <<sequential, host, instances>>

\* proxy.py 20-21; an exception ends the coroutine and frees the thread
CTwReceive(p) ==
    /\ task[p].pc = "tw_recv"
    /\ Runs(p)
    /\ LET g == Get(task[p].response, "status", S("uninitialized")) IN
       IF g.raised
       THEN /\ task' = [task EXCEPT ![p] = [@ EXCEPT !.pc = "crashed", !.exc = g.exc]]
            /\ loop' = 0
       ELSE /\ task' = [task EXCEPT ![p] = [@ EXCEPT !.pc = "tw_loop",
                                                     !.wstatus = g.val,
                                                     !.attempts = Spend(@)]]
            /\ loop' = Held(p)
    /\ UNCHANGED <<sequential, host, frame, instances>>

\* proxy.py 23-30; the coroutine ends and frees the thread
CTwReturn(p) ==
    /\ task[p].pc = "tw_loop"
    /\ Runs(p)
    /\ ~RetryContinues(task[p].wstatus, task[p].attempts)
    /\ LET r == TixWorkflowReturn(task[p].wstatus, task[p].response) IN
       task' = [task EXCEPT ![p] =
                   IF r.raised THEN [@ EXCEPT !.pc = "crashed", !.exc = r.exc]
                   ELSE [@ EXCEPT !.pc = "done", !.result = r.val]]
    /\ loop' = 0
    /\ UNCHANGED <<sequential, host, frame, instances>>

\* the steps of invocation p
CStep(p) ==
    \/ CTixWorkflowStart(p)
    \/ CTwCallTixDomo(p)
    \/ CTdActivate(p)
    \/ CTdPoll(p)
    \/ CTdWake(p)
    \/ CTdFetch(p)
    \/ CTwReceive(p)
    \/ CTwReturn(p)

NextConcurrent ==
    \/ CHost
    \/ \E p \in Tasks : CTixWorkflowStart(p)
    \/ \E p \in Tasks : CTwCallTixDomo(p)
    \/ \E p \in Tasks : CTdActivate(p)
    \/ \E p \in Tasks : CTdPoll(p)
    \/ \E p \in Tasks : CTdWake(p)
    \/ \E p \in Tasks : CTdFetch(p)
    \/ \E p \in Tasks : CTwReceive(p)
    \/ \E p \in Tasks : CTwReturn(p)

Concurrent == Init /\ [][NextConcurrent]_vars

Next ==
    \/ TixWorkflowStart
    \/ TwCallTixDomo
    \/ TdActivate
    \/ TdPoll
    \/ TdFetch
    \/ TwReceive
    \/ TwReturn
    \/ QueryDatasetStart
    \/ QdActivate
    \/ QdPoll
    \/ QdFetch
    \/ ListRoles
    \/ GetDatasetMetadata
    \/ DomoGetDatasetMetadata
    \/ SearchDatasets

Spec == Init /\ [][Next]_vars

\* every request comes back, with a payload or a failure, and the interpreter
\* goes on: a step that can be taken is taken
FairSpec == Spec /\ WF_vars(Next)

(***************************************************************************)
(* Properties                                                              *)
(***************************************************************************)
\* the poll budget of the entry point in progress
Budget == IF op = "query_dataset" THEN QueryTimeoutSeconds ELSE TixTimeoutSeconds

\* C1: a status query is issued only while fewer than T queries have been
\* issued for the activation (T = 300 in tix_domo, 120 in query_dataset) and
\* every status observed for it so far, the activation's own included, is
\* IN_PROGRESS.
C1_PollWithTimeout ==
    [][(TdPoll \/ QdPoll) => (nStatusQ < Budget /\ ~terminalSeen)]_vars

\* the budget of tix_domo is used up with the instance still IN_PROGRESS
C1_Witness ==
    /\ pc = "td_poll"
    /\ nStatusQ = TixTimeoutSeconds
    /\ observed = IN_PROGRESS
    /\ ~PollContinues(status, timeout_seconds)

\* C2: tix_workflow activates the trigger only while fewer than 5 activations
\* have been made and the attempt before, if any, did not end COMPLETED.
C2_RetryWithReactivation ==
    [][TdActivate => (nActivations < Attempts /\ wstatus # COMPLETED)]_vars

\* five activations were made and the handler returned
C2_Witness ==
    /\ op = "tix_workflow"
    /\ pc = "done"
    /\ nActivations = Attempts
    /\ wstatus # COMPLETED

\* C3: tix_workflow never ends in an exception that leaves the handler.
C3_AlwaysResponds == op = "tix_workflow" => pc # "crashed"

\* what the latest request yielded as a payload: the body, or None on failure
RawLog == IF answer.k = "ok" THEN answer.body ELSE PyNone

\* a message whose id starts with result__, read off the pieces of the id
IsResultMsg(m) ==
    /\ "id" \in DOMAIN m.v
    /\ Len(m.v.id.v) >= 2
    /\ m.v.id.v[1] = "result"
    /\ m.v.id.v[2] = "__"

RECURSIVE ResultMessages(_)
ResultMessages(l) ==
    IF l = <<>> THEN <<>>
    ELSE (IF IsResultMsg(Head(l)) THEN <<Head(l)>> ELSE <<>>) \o ResultMessages(Tail(l))

\* C4 as stated: the response carries the final observed status, and as data
\* the result__ messages on COMPLETED, the raw transaction list otherwise.
C4_Original ==
    (op = "tix_workflow" /\ pc = "done") =>
        /\ result.body.v.status = observed
        /\ result.body.v.data = IF observed = COMPLETED
                                THEN PyList(ResultMessages(RawLog.v))
                                ELSE RawLog

\* C4 as amended: on COMPLETED the response carries the literal "completed"
\* and the messages whose id starts with result__, in log order; otherwise it
\* carries the final observed status of the last attempt and, as data, the
\* whole tix_domo result {status, messages} with the raw transaction list
\* (None when the fetch failed) under messages.
C4_ResponseShape ==
    (op = "tix_workflow" /\ pc = "done") =>
        IF observed = COMPLETED
        THEN result = JSONResponse(PyDict([status |-> S("completed"),
                                           data |-> PyList(ResultMessages(RawLog.v))]))
        ELSE result = JSONResponse(PyDict([status |-> observed,
                                           data |-> PyDict([status |-> observed,
                                                            messages |-> RawLog])]))

\* the log [result__x, other] of a COMPLETED instance came back as [result__x]
C4_Witness ==
    /\ op = "tix_workflow"
    /\ pc = "done"
    /\ observed = COMPLETED
    /\ answer = OkJson(PyList(<<Msg(ResultX, <<"1">>), Msg(Other, <<"2">>)>>))
    /\ result.body.v.data = PyList(<<Msg(ResultX, <<"1">>)>>)

\* the poll loop has ended with the status still IN_PROGRESS
Exhausted ==
    /\ pc \in {"td_poll", "qd_poll"}
    /\ status = IN_PROGRESS
    /\ ~PollContinues(status, timeout_seconds)

C6_SameNonEmptyId ==
    /\ actOutcome = "ok" => Truthy(actId)
    /\ reqId # NoReq => reqId = actId

\* C7: after a failed or malformed activation no status query and no
\* transactions fetch is issued, and what tix_domo or query_dataset hands
\* back is an error text.
C7_ActivationFailure ==
    actOutcome = "failed" =>
        /\ nStatusQ = 0
        /\ nTxn = 0
        /\ reqId = NoReq
        /\ pc = "tw_recv" => response.t = "str"
        /\ (op = "query_dataset" /\ pc = "done") => result.t = "str"

\* no message of the list l has the id "result"
NoResultMessage(l) ==
    \A k \in 1..Len(l) : ~("id" \in DOMAIN l[k].v /\ l[k].v.id = PyStr(Result))

\* query_dataset has fetched a transaction list
QueryFetched ==
    /\ op = "query_dataset"
    /\ pc \in {"done", "crashed"}
    /\ nTxn = 1
    /\ answer.k = "ok"

\* C8: when the fetched transaction list has no message with id "result",
\* query_dataset returns a value, the text built from the failed lookup, and
\* no exception leaves it.
C8_NotFoundIsValue ==
    (QueryFetched /\ NoResultMessage(answer.body.v)) =>
        /\ pc = "done"
        /\ result = PyStr(<<"Error executing query on dataset: ",
                            "'", "NoneType", "' object is not subscriptable">>)

\* the list [{id: other}] led to the not-found text
C8_Witness ==
    /\ QueryFetched
    /\ answer.body = PyList(<<Msg(Other, <<"{", "}">>)>>)
    /\ pc = "done"
    /\ result.t = "str"

\* C9: for a request that got no answer or a non-2xx answer, make_request
\* (server.py and domo.py) returns None and does not raise.
C9_ExecutorNeverRaises ==
    (answer # NoValue /\ answer.k \in {"conn_error", "http_error"}) =>
        \A m \in {"GET", "POST"} :
            /\ domo_make_request(m, answer) = Return(PyNone)
            /\ \A nojson \in BOOLEAN : make_request(m, answer, nojson) = Return(PyNone)

FailedAnswers == {ConnError, HttpError}

\* what the single-request wrapper o returns when the remote answered tr
WrapperResult(o, tr) ==
    CASE o = "list_roles" -> list_roles(tr)
      [] o = "get_dataset_metadata" -> get_dataset_metadata(tr)
      [] o = "domo.get_dataset_metadata" -> domo_get_dataset_metadata(tr)
      [] o = "search_datasets" -> search_datasets(tr)

\* C10: the value returned for a successful answer with an empty payload
\* differs from the value returned when the request failed.
C10_EmptyIsNotFailure ==
    /\ (pc = "done" /\ op \in {"list_roles", "get_dataset_metadata",
                               "domo.get_dataset_metadata", "search_datasets"}
        /\ answer.k = "ok" /\ answer.body \in {EmptyList, EmptyDict}) =>
           \A f \in FailedAnswers : result # WrapperResult(op, f)
    /\ (QueryFetched /\ pc = "done"
        /\ answer.body \in {EmptyList, PyList(<<Msg(Result, <<>>)>>)}) =>
           \A f \in FailedAnswers : Return(result) # QueryDatasetTail(f)
    /\ (op = "tix_workflow" /\ pc = "done" /\ answer.k = "ok" /\ answer.body = EmptyList) =>
           Return(result) # TixWorkflowReturn(wstatus, PyDict([status |-> wstatus,
                                                               messages |-> PyNone]))

\* the latest instance invocation p activated, 0 when it has none
Own(p) == InstanceOf(task[p].actId)

\* every request of an invocation names the instance its own latest
\* activation started, and the response it returns carries the status the
\* remote system reported for that instance and messages of that instance's
\* log only
C11_OwnInstance ==
    \A p \in Tasks :
        /\ task[p].reqId # NoReq =>
               /\ task[p].reqId = task[p].actId
               /\ Own(p) # 0
               /\ instances[Own(p)].owner = p
        /\ task[p].pc = "done" =>
               /\ Own(p) # 0
               /\ instances[Own(p)].owner = p
               /\ LET st == instances[Own(p)].reported
                      body == task[p].result.body.v
                  IN  IF st = COMPLETED
                      THEN body = [status |-> S("completed"),
                                   data |-> PyList(<<Msg(ResultX, InstanceId(Own(p)))>>)]
                      ELSE /\ body.status = st
                           /\ body.data.v.status = st
                           /\ body.data.v.messages \in {PyNone, PyList(InstanceLog(Own(p)))}

\* a step changes the handler state, the outcome or the locals of an
\* invocation only when it is a step of that invocation
C11_OwnSteps ==
    \A p \in Tasks :
        (task'[p] # task[p] \/ frame'[p] # frame[p]) => CStep(p)

\* C11: two concurrent invocations are independent under every interleaving:
\* each one issues its status queries and its transactions fetch only for the
\* instance its own activation returned, returns the status and the data of
\* that instance, and is left unchanged by the steps of the other.
C11_Independence == []C11_OwnInstance /\ [][C11_OwnSteps]_vars

\* both invocations returned after their attempts interleaved: the first and
\* the third instance were started by invocation 1, the second by invocation 2
C11_Witness ==
    /\ host = "workers"
    /\ task[1].pc = "done"
    /\ task[2].pc = "done"
    /\ Len(instances) = 3
    /\ instances[1].owner = 1
    /\ instances[2].owner = 2
    /\ instances[3].owner = 1

\* C12: while an invocation is in the pause between two polls, another
\* invocation of the same event loop that has a step to take can take it.
C12_PauseSuspendsOnlyPoller ==
    \A p, q \in Tasks :
        (/\ host = "event_loop"
         /\ p # q
         /\ task[p].pc = "td_sleep"
         /\ task[q].pc \notin {"done", "crashed"}) => ENABLED CStep(q)

\* C13: the only requests a workflow invocation issues are the activate POST,
\* the status GET and the transactions GET; no request deletes or cancels an
\* instance, also not once the poll or retry budget is used up with the
\* instance still IN_PROGRESS.
C13_NoCancellation ==
    (op \in {"tix_workflow", "query_dataset"} /\ request # NoReq) =>
        /\ request \in {[method |-> "POST", endpoint |-> "activate"],
                        [method |-> "GET", endpoint |-> "status"],
                        [method |-> "GET", endpoint |-> "transactions"]}
        /\ request.method # "DELETE"

\* all five attempts were made, the last instance was still IN_PROGRESS when
\* its budget ran out, and the last request issued was its transactions fetch
C13_Witness ==
    /\ op = "tix_workflow"
    /\ pc = "done"
    /\ nActivations = Attempts
    /\ observed = IN_PROGRESS
    /\ request = [method |-> "GET", endpoint |-> "transactions"]

\* C14: over the fetched transaction list the filter of tix_workflow returns
\* exactly the messages whose id starts with result__, in log order; run
\* again on the same list it yields the same messages, and run on its own
\* output it yields that output.
C14_PrefixMatchAll ==
    (op = "tix_workflow" /\ pc = "done" /\ observed = COMPLETED) =>
        /\ answer.k = "ok"
        /\ LET log == answer.body.v
               out == result.body.v.data.v
           IN  /\ out = ResultMessages(log)
               /\ Filtered(log) = out
               /\ Filtered(out) = out

\* two different result__ messages came back in the order of the log
C14_Witness ==
    /\ op = "tix_workflow"
    /\ pc = "done"
    /\ observed = COMPLETED
    /\ answer = OkJson(PyList(<<Msg(ResultY, <<"3">>), Msg(ResultX, <<"1">>)>>))
    /\ result.body.v.data = PyList(<<Msg(ResultY, <<"3">>), Msg(ResultX, <<"1">>)>>)

\* C15 as stated: an attempt of tix_workflow activates one instance and
\* checks its status once, with no repeated status polling.
C15_Original ==
    op = "tix_workflow" => nStatusQ <= 1

\* C15 as amended: an attempt of tix_workflow is one call of tix_domo: it
\* issues exactly one activation, then up to 300 status queries while the
\* instance is IN_PROGRESS, and at most one transactions fetch; tix_workflow
\* reads the status the call returned once and counts the attempt.
C15_AttemptIsFullPoll ==
    op = "tix_workflow" =>
        /\ pc \in {"tw_loop", "td_activate", "done"} => nActivations = Attempts - attempts
        /\ pc \in {"td_poll", "tw_recv"} => nActivations = Attempts - attempts + 1
        /\ pc = "crashed" => nActivations \in {Attempts - attempts, Attempts - attempts + 1}
        /\ nStatusQ <= TixTimeoutSeconds
        /\ nTxn <= 1
        /\ (pc = "tw_loop" /\ attempts < Attempts) => wstatus = Get(response, "status", PyNone).val

\* the second attempt is polling its instance for the third time
C15_Witness ==
    /\ op = "tix_workflow"
    /\ pc = "td_poll"
    /\ nActivations = 2
    /\ attempts = Attempts - 1
    /\ nStatusQ = 3

\* the poll loop of the call in progress has ended by its test
PollEnded ==
    /\ pc \in {"td_poll", "qd_poll"}
    /\ ~PollContinues(status, timeout_seconds)

\* within one activation: status queries and the fetch only follow a
\* successful activation, at most one fetch is issued, and once the loop has
\* ended, whatever the status it ended with, the fetch is the step to come
C16_Ordered ==
    /\ nTxn <= 1
    /\ nStatusQ > 0 => (actOutcome = "ok" /\ nTxn = 0)
    /\ nTxn = 1 => actOutcome = "ok"
    /\ PollEnded => (nTxn = 0 /\ ENABLED (TdFetch \/ QdFetch))
    /\ (pc = "tw_recv" /\ response.t = "dict") =>
           (nTxn = 1 /\ request = [method |-> "GET", endpoint |-> "transactions"])
    /\ (op = "query_dataset" /\ pc = "done"
        /\ request = [method |-> "GET", endpoint |-> "transactions"]) => nTxn = 1

\* a status query is issued after the activation and before the fetch; the
\* fetch is issued after the loop has ended and is the first of its activation
C16_Steps ==
    /\ (TdPoll \/ QdPoll) => (actOutcome = "ok" /\ nActivations >= 1 /\ nTxn = 0)
    /\ (TdFetch \/ QdFetch) => (actOutcome = "ok" /\ PollEnded /\ nTxn = 0 /\ nTxn' = 1)

\* C16: within one activation the activate request precedes every status
\* query, every status query precedes the transactions fetch, and the fetch is
\* issued exactly once after polling has ended, whatever the final status is.
C16_CallOrdering == []C16_Ordered /\ [][C16_Steps]_vars

\* tix_domo returned after polling ended with FAILED and the one fetch was made
C16_Witness ==
    /\ pc = "tw_recv"
    /\ response.t = "dict"
    /\ response.v.status = S("FAILED")
    /\ observed = S("FAILED")
    /\ nTxn = 1
    /\ request = [method |-> "GET", endpoint |-> "transactions"]

\* C17: provided every request eventually returns, every call of tix_domo
\* returns to tix_workflow, every call of query_dataset returns a value, and
\* every call of tix_workflow ends, handing its caller a response or, where
\* C3 fails, an exception.
C17_Termination ==
    /\ (pc = "td_activate") ~> (pc = "tw_recv")
    /\ (pc = "qd_activate") ~> (op = "query_dataset" /\ pc = "done")
    /\ (op = "tix_workflow") ~> (op = "tix_workflow" /\ pc \in {"done", "crashed"})

\* tix_workflow returned after its fifth attempt ran out of budget
C17_Witness ==
    /\ op = "tix_workflow"
    /\ pc = "done"
    /\ attempts = 0
    /\ wstatus = IN_PROGRESS
    /\ result.body.v.status = IN_PROGRESS

\* the first message of the list l whose id is exactly "result"
RECURSIVE FirstResult(_)
FirstResult(l) ==
    IF "id" \in DOMAIN Head(l).v /\ Head(l).v.id.v = <<"result">>
    THEN Head(l)
    ELSE FirstResult(Tail(l))

\* C18: when the fetched transaction list has a message whose id is exactly
\* "result", query_dataset takes the first such message in log order and
\* returns its value decoded from JSON, or the text "Unable to execute query
\* on the dataset." when that value is empty.  (A value that is not JSON, or
\* a message without value, comes back as the error text of the handler.)
C18_ExactMatchOne ==
    (QueryFetched /\ ~NoResultMessage(answer.body.v)) =>
        /\ pc = "done"
        /\ LET m == FirstResult(answer.body.v) IN
           IF "value" \notin DOMAIN m.v
           THEN result = PyStr(<<"Error executing query on dataset: ", "'", "value", "'">>)
           ELSE CASE m.v.value.v = <<>> ->
                       result = PyStr(<<"Unable to execute query on the dataset.">>)
                  [] m.v.value.v = <<"{", "\"rows\": 3", "}">> ->
                       result = [t |-> "dict", v |-> [rows |-> 3]]
                  [] m.v.value.v = <<"{", "}">> ->
                       result = [t |-> "dict", v |-> <<>>]
                  [] OTHER ->
                       result = PyStr(<<"Error executing query on dataset: ",
                                        "Expecting value: line 1 column 1 (char 0)">>)

\* of two result messages the first one, a JSON text, was decoded and returned
C18_Witness ==
    /\ QueryFetched
    /\ answer.body = PyList(<<Msg(Result, <<"{", "\"rows\": 3", "}">>), Msg(Result, <<"bad">>)>>)
    /\ pc = "done"
    /\ result = [t |-> "dict", v |-> [rows |-> 3]]

\* the latest status query of the poll loop in progress failed with a
\* non-2xx answer: make_request handed None to the loop
StatusQueryFailed ==
    /\ pc \in {"td_poll", "qd_poll"}
    /\ request = [method |-> "GET", endpoint |-> "status"]
    /\ answer = HttpError

\* C19: a status query that fails with the no-result outcome ends the poll
\* loop as a terminal status would: the status kept is None, no further
\* status query is issued for the instance, the transactions fetch follows
\* and tix_domo returns None as the status; tix_workflow takes it as not
\* COMPLETED and activates again while attempts remain.
C19_FailedQueryEndsLoop ==
    /\ StatusQueryFailed =>
           /\ status = PyNone
           /\ observed = PyNone
           /\ terminalSeen
           /\ ~ENABLED (TdPoll \/ QdPoll)
           /\ ENABLED (TdFetch \/ QdFetch)
    /\ (pc = "tw_recv" /\ observed = PyNone /\ response.t = "dict") =>
           /\ response.v.status = PyNone
           /\ nTxn = 1
    /\ (op = "tix_workflow" /\ pc = "tw_loop" /\ observed = PyNone) =>
           /\ wstatus = PyNone
           /\ attempts > 0 => (ENABLED TwCallTixDomo /\ ~ENABLED TwReturn)
           /\ attempts = 0 => ENABLED TwReturn

\* after an attempt whose status query failed, the second attempt is about to
\* activate a new instance
C19_Witness ==
    /\ op = "tix_workflow"
    /\ pc = "td_activate"
    /\ observed = PyNone
    /\ wstatus = PyNone
    /\ attempts = Attempts - 1
    /\ nActivations = 1

\* C20: tix_workflow nests the two policies.  An attempt that ended with a
\* status other than COMPLETED is followed by a fresh activation while
\* attempts remain, and by the return otherwise; one call makes at most 5
\* activations, each with at most 300 status queries and one transactions
\* fetch of its own, hence at most 5 x 300 status queries and 5 fetches in
\* all, and never a request that cancels an instance.
C20_NestedPolicies ==
    op = "tix_workflow" =>
        /\ nActivations <= Attempts
        /\ nActivations + attempts <= Attempts + 1
        /\ nStatusQ <= TixTimeoutSeconds
        /\ nTxn <= 1
        /\ nStatusQ > 0 => nTxn = 0
        /\ request # NoReq => request.method \in {"POST", "GET"}
        /\ (pc = "tw_loop" /\ nActivations >= 1 /\ wstatus # COMPLETED /\ attempts > 0) =>
               (ENABLED TwCallTixDomo /\ ~ENABLED TwReturn)
        /\ (pc = "tw_loop" /\ (wstatus = COMPLETED \/ attempts = 0)) =>
               (ENABLED TwReturn /\ ~ENABLED TwCallTixDomo)

\* the fourth attempt ended FAILED, and the fifth has used its 300 queries
\* with its instance still IN_PROGRESS
C20_Witness ==
    /\ op = "tix_workflow"
    /\ pc = "td_poll"
    /\ wstatus = S("FAILED")
    /\ nActivations = Attempts
    /\ nStatusQ = TixTimeoutSeconds
    /\ status = IN_PROGRESS

\* what the exact-match-one extraction makes of the answer a to the
\* transactions request: the error text for a request that failed, for a log
\* that is no list or has no message with id "result", else the first such
\* message's value decoded
ExtractionOf(a) ==
    IF a.k = "conn_error"
    THEN PyStr(<<"Error executing query on dataset: ",
                 "cannot access local variable 'response' where it is not associated with a value">>)
    ELSE IF a.k # "ok"
    THEN PyStr(<<"Error executing query on dataset: ", "'", "NoneType", "' object is not iterable">>)
    ELSE IF NoResultMessage(a.body.v)
    THEN PyStr(<<"Error executing query on dataset: ",
                 "'", "NoneType", "' object is not subscriptable">>)
    ELSE LET m == FirstResult(a.body.v) IN
         IF "value" \notin DOMAIN m.v
         THEN PyStr(<<"Error executing query on dataset: ", "'", "value", "'">>)
         ELSE CASE m.v.value.v = <<>> -> PyStr(<<"Unable to execute query on the dataset.">>)
                [] m.v.value.v = <<"{", "\"rows\": 3", "}">> -> [t |-> "dict", v |-> [rows |-> 3]]
                [] m.v.value.v = <<"{", "}">> -> [t |-> "dict", v |-> <<>>]
                [] OTHER -> PyStr(<<"Error executing query on dataset: ",
                                    "Expecting value: line 1 column 1 (char 0)">>)

\* the statuses a poll loop can end with: COMPLETED, another terminal value,
\* IN_PROGRESS with the budget used up, or None after a failed status query
FinalStatuses == {COMPLETED, S("FAILED"), IN_PROGRESS, PyNone}

\* C21: query_dataset does not branch on the final status.  Once its poll
\* loop has ended, the transactions fetch and the extraction follow whatever
\* the status is; the value returned is the extraction of the fetched log
\* alone, whichever status the loop ended with, and SearchDomo hands the
\* caller that value under the single key "data", without the status.
C21_StatusIgnored ==
    /\ (op = "query_dataset" /\ pc = "qd_poll" /\ ~PollContinues(status, timeout_seconds)) =>
           /\ status \in FinalStatuses
           /\ ENABLED QdFetch
           /\ ~ENABLED QdPoll
    /\ (op = "query_dataset" /\ pc \in {"done", "crashed"} /\ nTxn = 1) =>
           /\ pc = "done"
           /\ observed \in FinalStatuses
           /\ result = ExtractionOf(answer)
           /\ DOMAIN SearchDomo(result).v = {"data"}
           /\ SearchDomo(result).v.data = ExtractionOf(answer)

\* the budget was used up with the instance still IN_PROGRESS, and the
\* decoded value of the result message was returned all the same
C21_Witness ==
    /\ op = "query_dataset"
    /\ pc = "done"
    /\ nTxn = 1
    /\ observed = IN_PROGRESS
    /\ answer = OkJson(PyList(<<Msg(Result, <<"{", "\"rows\": 3", "}">>)>>))
    /\ result = [t |-> "dict", v |-> [rows |-> 3]]

\* the instance started by the last successful activation of invocation p,
\* 0 when it has started none
LastOwned(p) ==
    LET own == {k \in 1..Len(instances) : instances[k].owner = p} IN
    IF own = {} THEN 0 ELSE CHOOSE k \in own : \A j \in own : j <= k

\* every message of the list l comes from the log of instance k
FromLogOf(k, l) ==
    \A i \in 1..Len(l) : l[i] \in {InstanceLog(k)[j] : j \in 1..Len(InstanceLog(k))}

\* the response r of a tix_domo call of invocation p pairs the status the
\* remote system reported for p's last instance with messages of that
\* instance's log
PairsLast(p, r) ==
    LET k == LastOwned(p) IN
    /\ k # 0
    /\ r.v.status = instances[k].reported
    /\ r.v.messages.t = "list" => FromLogOf(k, r.v.messages.v)

\* C22: the status and the data tix_workflow returns come from one
\* activation, the last one it performed.  The response of each attempt pairs
\* the status of the instance that attempt started with the log fetched with
\* that instance's id, and the response returned is built from the last
\* attempt's pair alone: filtered messages of its log under "completed", or
\* its status with its raw response; never messages of an earlier instance.
C22_SameLastActivation ==
    \A p \in Tasks :
        /\ (task[p].pc \in {"tw_recv", "tw_loop", "done"} /\ task[p].response.t = "dict") =>
               /\ PairsLast(p, task[p].response)
               /\ task[p].actId = PyStr(InstanceId(LastOwned(p)))
               /\ task[p].reqId = task[p].actId
        /\ task[p].pc = "done" =>
               /\ task[p].response.t = "dict"
               /\ LET k == LastOwned(p)
                      body == task[p].result.body.v
                  IN  IF instances[k].reported = COMPLETED
                      THEN /\ body.status = S("completed")
                           /\ body.data.t = "list"
                           /\ FromLogOf(k, body.data.v)
                           /\ body.data.v = Filtered(task[p].response.v.messages.v)
                      ELSE /\ body.status = instances[k].reported
                           /\ body.data = task[p].response

\* invocation 1 returned after two attempts: its first instance ended FAILED,
\* its second COMPLETED, and the data returned is the result message of the
\* second instance's log
C22_Witness ==
    /\ task[1].pc = "done"
    /\ Len(instances) = 2
    /\ instances[1] = [owner |-> 1, polls |-> 0, reported |-> S("FAILED")]
    /\ instances[2].owner = 1
    /\ instances[2].reported = COMPLETED
    /\ task[1].result.body.v =
           [status |-> S("completed"), data |-> PyList(<<Msg(ResultX, InstanceId(2))>>)]

====
